---- MODULE Spec2Model ----
(***************************************************************************)
(* Adoption workflow of the pet adoption backend: the Pet and Application  *)
(* collections and the request handlers of routes/applicationRoutes.js     *)
(* (submit, approve, reject, withdraw) together with the pet creation      *)
(* handler of routes/petRoutes.js.  A handler is an async function: every  *)
(* `await` of a store operation is one atomic step, and handlers of        *)
(* different requests interleave between their steps.                      *)
(***************************************************************************)
EXTENDS Naturals, FiniteSets, TLC

\* ------------------------------------------------------------------ bounds
\* the workflow configuration: users, pet ids, application ids, handlers
\* running side by side, requests received
NumUsers == 2
NumPets == 1
MaxApps == 2
MaxConc == 2
MaxReq == 4

\* the core configuration: one user, three requests, every decision with a note
CoreUsers == 1
CorePets == 1
CoreApps == 2
CoreConc == 2
CoreReq == 3

\* the ownership configuration: two users around one application
OwnerUsers == 2
OwnerPets == 1
OwnerApps == 1
OwnerConc == 2
OwnerReq == 3

\* the authorization configuration: two users and callers of either role around
\* one application
AuthUsers == 2
AuthPets == 1
AuthApps == 1
AuthConc == 2
AuthReq == 2

\* userSchema.role: enum values
Roles == {"user", "admin"}

\* req.body.adminNotes: absent or a note
AdminNotes == {"undefined", "note"}
CoreNotes == {"note"}

VARIABLES
  pets,      \* Pet collection: PetIds -> pet document (exists = FALSE: no document)
  nextPet,   \* next fresh pet _id
  apps,      \* Application collection: AppIds -> application document
  nextApp,   \* next fresh application _id
  reqs,      \* request handlers running side by side: Reqs -> handler state
             \* (its locals, its position, its response once it has answered)
  budget     \* number of workflow requests still to be received

vars == <<pets, nextPet, apps, nextApp, reqs, budget>>

PetIds == DOMAIN pets
AppIds == DOMAIN apps
Reqs == DOMAIN reqs

\* ------------------------------------------------------------- documents
\* adoptedBy: a user id, 0 for null
NoPet == [exists |-> FALSE, status |-> "none", adoptedBy |-> 0, adoptionDate |-> "null"]

\* Pet.create in POST /api/pets: status 'available', schema defaults for the rest
NewPet == [exists |-> TRUE, status |-> "available", adoptedBy |-> 0, adoptionDate |-> "null"]

NoApp == [exists |-> FALSE, id |-> 0, userId |-> 0, petId |-> 0, status |-> "none",
          adminNotes |-> "undefined", decidedDate |-> "null"]

\* Application.create({userId, petId, userMessage, status: 'Pending'})
NewApp(id, u, p) == [exists |-> TRUE, id |-> id, userId |-> u, petId |-> p, status |-> "Pending",
                     adminNotes |-> "undefined", decidedDate |-> "null"]

\* req.body of PUT /api/pets/:id: `fields` are the pet paths the body carries
NoBody == [fields |-> {}, status |-> "none", adoptedBy |-> 0, adoptionDate |-> "null"]

\* the bodies an admin sends: other fields only; a status of the schema; an
\* adoption written by hand; a status the schema does not know
PetBodies ==
  { NoBody,
    [NoBody EXCEPT !.fields = {"status"}, !.status = "available"],
    [NoBody EXCEPT !.fields = {"status", "adoptedBy", "adoptionDate"}, !.status = "adopted",
                   !.adoptedBy = 1, !.adoptionDate = "date"],
    [NoBody EXCEPT !.fields = {"status"}, !.status = "sold"] }

\* petSchema.status: enum values
PetStatusEnum == {"available", "pending", "adopted", "not_available", "fostered"}

\* user: req.user.id, the identity authMiddleware attached to the request;
\* bodyUser: a userId carried by req.body (0: none);
\* logged: the events the handler has written to the server log (the handlers
\* of applicationRoutes.js write none)
IdleReq == [op |-> "none", pc |-> "idle", user |-> 0, bodyUser |-> 0, petId |-> 0, appId |-> 0,
            notes |-> "undefined", doc |-> NoApp, body |-> NoBody, res |-> 0, logged |-> {}]

\* --------------------------------------------------------- store queries
\* a lookup that only sees the applications still open
FindPendingByUserPet(u, p) ==
  \E a \in AppIds : apps[a].exists /\ apps[a].userId = u /\ apps[a].petId = p /\ apps[a].status = "Pending"

\* Application.findOne({ userId, petId })
FindByUserPet(u, p) == \E a \in AppIds : apps[a].exists /\ apps[a].userId = u /\ apps[a].petId = p

\* Application.findOne({ petId, status: 'Pending' })
FindPendingForPet(p) == \E a \in AppIds : apps[a].exists /\ apps[a].petId = p /\ apps[a].status = "Pending"

\* a collection without the unique index accepts every insert
NoUniqueIndex(u, p) == FALSE

\* the unique compound index { userId: 1, petId: 1 }: an insert of (u, p) is
\* refused with a duplicate key error when a document with that key is stored
DuplicateKey(u, p) == \E a \in AppIds : apps[a].exists /\ apps[a].userId = u /\ apps[a].petId = p

\* a lookup that finds a document under every id
PetAlwaysFound(p) == TRUE

\* Pet.findById(petId) returns a document (if (!pet) is not taken)
PetFound(p) == p \in PetIds /\ pets[p].exists

\* an ownership check that lets every caller through
AnyoneOwns(doc, u) == TRUE

\* application.userId.toString() === req.user.id
IsOwner(doc, u) == doc.userId = u

\* Pet.findByIdAndUpdate(id, { status }): sets the one field of the stored
\* document, without validation; no document, no effect
SetPetStatus(p, s) ==
  IF p \in PetIds /\ pets[p].exists
  THEN [pets EXCEPT ![p].status = s]
  ELSE pets

\* ------------------------------------------------------- request handlers
InFlight == {r \in Reqs : reqs[r].pc \notin {"idle", "done"}}

\* a new request is served by the first slot that holds no running handler
Starts(r) ==
  /\ budget > 0
  /\ budget' = budget - 1
  /\ r \notin InFlight
  /\ \A q \in Reqs : q < r => q \in InFlight

\* handler r starts with locals `fresh`; the responses already given have
\* reached their callers and are forgotten
Begin(r, fresh) ==
  [q \in Reqs |-> IF q = r THEN fresh
                  ELSE IF q \in InFlight THEN reqs[q] ELSE IdleReq]

\* an answer after which the handler goes on
RespondAndGoOn(r, code) == [reqs EXCEPT ![r].res = code]

\* return res.status(code).json(...): the answer ends the handler
Respond(r, code) == [reqs EXCEPT ![r].pc = "done", ![r].res = code]

\* POST /api/pets (admin): one Pet.create
CreatePet ==
  /\ nextPet \in PetIds
  /\ pets' = [pets EXCEPT ![nextPet] = NewPet]
  /\ nextPet' = nextPet + 1
  /\ UNCHANGED <<apps, nextApp, reqs, budget>>

\* ---- PUT /api/pets/:id (a caller the admin middleware let through, body b)
\* const petExists = await Pet.findById(id); if (!petExists) return 404
UpdatePetFind(r, p, b) ==
  /\ Starts(r)
  /\ reqs' = Begin(r,
       [IdleReq EXCEPT !.op = "updatePet", !.petId = p, !.body = b,
                       !.pc = IF pets[p].exists THEN "update" ELSE "done",
                       !.res = IF pets[p].exists THEN 0 ELSE 404])
  /\ UNCHANGED <<pets, nextPet, apps, nextApp>>

\* the stored pet with the paths of body b set
ApplyBody(pet, b) ==
  [pet EXCEPT !.status = IF "status" \in b.fields THEN b.status ELSE @,
              !.adoptedBy = IF "adoptedBy" \in b.fields THEN b.adoptedBy ELSE @,
              !.adoptionDate = IF "adoptionDate" \in b.fields THEN b.adoptionDate ELSE @]

\* await Pet.findByIdAndUpdate(id, req.body, { new: true, runValidators: true });
\* a status outside the enum: ValidationError, 400, nothing written
UpdatePetWrite(r) ==
  /\ reqs[r].op = "updatePet" /\ reqs[r].pc = "update"
  /\ IF "status" \in reqs[r].body.fields /\ reqs[r].body.status \notin PetStatusEnum
     THEN /\ reqs' = Respond(r, 400)
          /\ UNCHANGED pets
     ELSE /\ pets' = IF pets[reqs[r].petId].exists
                     THEN [pets EXCEPT ![reqs[r].petId] = ApplyBody(@, reqs[r].body)]
                     ELSE pets
          /\ reqs' = Respond(r, 200)
  /\ UNCHANGED <<nextPet, apps, nextApp, budget>>

\* DELETE /api/pets/:id (admin): const pet = await Pet.findByIdAndDelete(id);
\* the one store operation removes the pet document and nothing else (no
\* document: 404 and no change)
DeletePet(p) ==
  /\ pets[p].exists
  /\ pets' = [pets EXCEPT ![p] = NoPet]
  /\ UNCHANGED <<nextPet, apps, nextApp, reqs, budget>>

\* a pet created from the whole request body
PetFromWholeBody(b) == ApplyBody(NewPet, b)

\* Pet.create({ name, ..., isFeatured, status: 'available' }): the handler picks
\* the descriptive fields out of the body and sets the status itself; adoptedBy
\* and adoptionDate get the schema defaults
PetFromBody(b) == [NewPet EXCEPT !.status = "available"]

\* POST /api/pets (admin) with body b: one Pet.create
CreatePetWith(b) ==
  /\ nextPet \in PetIds
  /\ pets' = [pets EXCEPT ![nextPet] = PetFromBody(b)]
  /\ nextPet' = nextPet + 1
  /\ UNCHANGED <<apps, nextApp, reqs, budget>>

\* ---- POST /api/applications (authenticated user u, body petId p)
PendingCreates == {r \in Reqs : reqs[r].op = "submit" /\ reqs[r].pc \in {"findExisting", "create"}}

\* an applicant read from the request body
ApplicantFromBody(req) == req.bodyUser

\* userId: req.user.id in findOne and in Application.create; the handler
\* destructures only petId and userMessage from req.body
Applicant(req) == req.user

\* Application.find({ userId: req.user.id }) over the collection `stored`:
\* what GET /api/applications/my reads for caller u
ListOwnOf(stored, u) == {a \in DOMAIN stored : stored[a].exists /\ stored[a].userId = u}

\* const pet = await Pet.findById(petId); if (!pet) return 404
SubmitFindPet(r, u, p) ==
  /\ Starts(r)
  /\ nextApp + Cardinality(PendingCreates) \in AppIds
  /\ reqs' = Begin(r,
       [IdleReq EXCEPT !.op = "submit", !.user = u, !.petId = p,
                       !.pc = IF PetFound(p) THEN "findExisting" ELSE "done",
                       !.res = IF PetFound(p) THEN 0 ELSE 404])
  /\ UNCHANGED <<pets, nextPet, apps, nextApp>>

\* the same request with a userId bu in its body
SubmitWithBody(r, u, bu, p) ==
  /\ Starts(r)
  /\ nextApp + Cardinality(PendingCreates) \in AppIds
  /\ reqs' = Begin(r,
       [IdleReq EXCEPT !.op = "submit", !.user = u, !.bodyUser = bu, !.petId = p,
                       !.pc = IF PetFound(p) THEN "findExisting" ELSE "done",
                       !.res = IF PetFound(p) THEN 0 ELSE 404])
  /\ UNCHANGED <<pets, nextPet, apps, nextApp>>

\* const existing = await Application.findOne({ userId, petId }); if (existing) return 400
SubmitFindExisting(r) ==
  /\ reqs[r].op = "submit" /\ reqs[r].pc = "findExisting"
  /\ reqs' = IF FindByUserPet(Applicant(reqs[r]), reqs[r].petId)
             THEN Respond(r, 400)
             ELSE [reqs EXCEPT ![r].pc = "create"]
  /\ UNCHANGED <<pets, nextPet, apps, nextApp, budget>>

\* const application = await Application.create({...}); a duplicate key error
\* is thrown into the handler's catch, which answers 500
SubmitCreate(r) ==
  /\ reqs[r].op = "submit" /\ reqs[r].pc = "create"
  /\ IF DuplicateKey(Applicant(reqs[r]), reqs[r].petId)
     THEN /\ reqs' = Respond(r, 500)
          /\ UNCHANGED <<apps, nextApp>>
     ELSE /\ apps' = [apps EXCEPT ![nextApp] = NewApp(nextApp, Applicant(reqs[r]), reqs[r].petId)]
          /\ nextApp' = nextApp + 1
          /\ reqs' = [reqs EXCEPT ![r].pc = "updatePet", ![r].appId = nextApp,
                                  ![r].doc = NewApp(nextApp, Applicant(reqs[r]), reqs[r].petId)]
  /\ UNCHANGED <<pets, nextPet, budget>>

\* await Pet.findByIdAndUpdate(petId, { status: 'Under Review' }); res 201
SubmitUpdatePet(r) ==
  /\ reqs[r].op = "submit" /\ reqs[r].pc = "updatePet"
  /\ pets' = SetPetStatus(reqs[r].petId, "Under Review")
  /\ reqs' = Respond(r, 201)
  /\ UNCHANGED <<nextPet, apps, nextApp, budget>>

\* Pet.findByIdAndUpdate rejects (the store does not answer): the exception
\* goes to the handler's catch, which answers 500 with err.message; the
\* application inserted before stays
SubmitUpdatePetFails(r) ==
  /\ reqs[r].op = "submit" /\ reqs[r].pc = "updatePet"
  /\ reqs' = Respond(r, 500)
  /\ UNCHANGED <<pets, nextPet, apps, nextApp, budget>>

\* a decision saved without its date
SaveDecisionNoDate(stored, doc, st, notes) ==
  [stored EXCEPT !.status = st, !.adminNotes = notes]

\* a decision that also takes the application away from its applicant
SaveDecisionUnowned(stored, doc, st, notes) ==
  [stored EXCEPT !.status = st, !.adminNotes = notes, !.decidedDate = "date", !.userId = 0]

\* application.status = st; application.adminNotes = notes;
\* application.decidedDate = new Date(); await application.save()
\* save() writes the paths whose value differs from the document as it was read
SaveDecision(stored, doc, st, notes) ==
  [stored EXCEPT !.status = IF doc.status # st THEN st ELSE @,
                 !.adminNotes = IF doc.adminNotes # notes THEN notes ELSE @,
                 !.decidedDate = "date"]

\* ---- PUT /api/applications/:id/approve (a caller the admin middleware let
\* through, body adminNotes)
\* const application = await Application.findById(req.params.id);
\* no document: the assignment to application.status throws, the catch answers 500
ApproveFind(r, id, notes) ==
  /\ Starts(r)
  /\ reqs' = Begin(r,
       [IdleReq EXCEPT !.op = "approve", !.appId = id, !.notes = notes,
                       !.doc = apps[id],
                       !.pc = IF apps[id].exists THEN "save" ELSE "done",
                       !.res = IF apps[id].exists THEN 0 ELSE 500])
  /\ UNCHANGED <<pets, nextPet, apps, nextApp>>

\* application.status = 'Approved'; application.adminNotes = req.body.adminNotes;
\* application.decidedDate = new Date(); await application.save();
\* no stored document any more: save() throws and the catch answers 500
ApproveSave(r) ==
  /\ reqs[r].op = "approve" /\ reqs[r].pc = "save"
  /\ IF apps[reqs[r].appId].exists
     THEN /\ apps' = [apps EXCEPT ![reqs[r].appId] =
                       SaveDecision(@, reqs[r].doc, "Approved", reqs[r].notes)]
          /\ reqs' = [reqs EXCEPT ![r].pc = "updatePet"]
     ELSE /\ reqs' = Respond(r, 500)
          /\ UNCHANGED apps
  /\ UNCHANGED <<pets, nextPet, nextApp, budget>>

\* await Pet.findByIdAndUpdate(application.petId, { status: 'Adopted' });
\* res.json({ success: true, data: application })
ApproveUpdatePet(r) ==
  /\ reqs[r].op = "approve" /\ reqs[r].pc = "updatePet"
  /\ pets' = SetPetStatus(reqs[r].doc.petId, "Adopted")
  /\ reqs' = Respond(r, 200)
  /\ UNCHANGED <<nextPet, apps, nextApp, budget>>

\* Pet.findByIdAndUpdate rejects: the catch answers 500; the decision saved
\* before stays
ApproveUpdatePetFails(r) ==
  /\ reqs[r].op = "approve" /\ reqs[r].pc = "updatePet"
  /\ reqs' = Respond(r, 500)
  /\ UNCHANGED <<pets, nextPet, apps, nextApp, budget>>

\* ---- PUT /api/applications/:id/reject (a caller the admin middleware let
\* through, body adminNotes)
\* const application = await Application.findById(req.params.id);
\* no document: the assignment to application.status throws, the catch answers 500
RejectFind(r, id, notes) ==
  /\ Starts(r)
  /\ reqs' = Begin(r,
       [IdleReq EXCEPT !.op = "reject", !.appId = id, !.notes = notes,
                       !.doc = apps[id],
                       !.pc = IF apps[id].exists THEN "save" ELSE "done",
                       !.res = IF apps[id].exists THEN 0 ELSE 500])
  /\ UNCHANGED <<pets, nextPet, apps, nextApp>>

\* application.status = 'Rejected'; application.adminNotes = req.body.adminNotes;
\* application.decidedDate = new Date(); await application.save();
\* no stored document any more: save() throws and the catch answers 500
RejectSave(r) ==
  /\ reqs[r].op = "reject" /\ reqs[r].pc = "save"
  /\ IF apps[reqs[r].appId].exists
     THEN /\ apps' = [apps EXCEPT ![reqs[r].appId] =
                       SaveDecision(@, reqs[r].doc, "Rejected", reqs[r].notes)]
          /\ reqs' = [reqs EXCEPT ![r].pc = "updatePet"]
     ELSE /\ reqs' = Respond(r, 500)
          /\ UNCHANGED apps
  /\ UNCHANGED <<pets, nextPet, nextApp, budget>>

\* await Pet.findByIdAndUpdate(application.petId, { status: 'Available' });
\* res.json({ success: true, data: application })
RejectUpdatePet(r) ==
  /\ reqs[r].op = "reject" /\ reqs[r].pc = "updatePet"
  /\ pets' = SetPetStatus(reqs[r].doc.petId, "Available")
  /\ reqs' = Respond(r, 200)
  /\ UNCHANGED <<nextPet, apps, nextApp, budget>>

\* Pet.findByIdAndUpdate rejects: the catch answers 500; the decision saved
\* before stays
RejectUpdatePetFails(r) ==
  /\ reqs[r].op = "reject" /\ reqs[r].pc = "updatePet"
  /\ reqs' = Respond(r, 500)
  /\ UNCHANGED <<pets, nextPet, apps, nextApp, budget>>

\* adminMiddleware lets the request through: the verified role of the caller
\* is admin
AdminMiddleware(role) == role = "admin"

\* adminMiddleware refuses the request: 403, the handler is not called
Forbidden(r, op, id) ==
  /\ Starts(r)
  /\ reqs' = Begin(r, [IdleReq EXCEPT !.op = op, !.appId = id, !.pc = "done", !.res = 403])
  /\ UNCHANGED <<pets, nextPet, apps, nextApp>>

\* the approve route registered without adminMiddleware
ApproveUnguarded(r, role, id, notes) == ApproveFind(r, id, notes)

\* router.put('/:id/approve', authMiddleware, adminMiddleware, handler):
\* a request of a caller with verified role `role`
ApproveRequest(r, role, id, notes) ==
  IF AdminMiddleware(role) THEN ApproveFind(r, id, notes) ELSE Forbidden(r, "approve", id)

\* router.put('/:id/reject', authMiddleware, adminMiddleware, handler)
RejectRequest(r, role, id, notes) ==
  IF AdminMiddleware(role) THEN RejectFind(r, id, notes) ELSE Forbidden(r, "reject", id)

\* ---- DELETE /api/applications/:id (authenticated user u)
\* const application = await Application.findById(id); no document: reading
\* application.userId throws (500); another user's application: 403
WithdrawFind(r, u, id) ==
  /\ Starts(r)
  /\ reqs' = Begin(r,
       [IdleReq EXCEPT !.op = "withdraw", !.user = u, !.appId = id,
                       !.doc = apps[id],
                       !.pc = IF apps[id].exists /\ IsOwner(apps[id], u) THEN "delete" ELSE "done",
                       !.res = IF ~apps[id].exists THEN 500
                               ELSE IF ~IsOwner(apps[id], u) THEN 403 ELSE 0])
  /\ UNCHANGED <<pets, nextPet, apps, nextApp>>

\* await Application.findByIdAndDelete(id)
WithdrawDelete(r) ==
  /\ reqs[r].op = "withdraw" /\ reqs[r].pc = "delete"
  /\ apps' = [apps EXCEPT ![reqs[r].appId] = NoApp]
  /\ reqs' = [reqs EXCEPT ![r].pc = "findOther"]
  /\ UNCHANGED <<pets, nextPet, nextApp, budget>>

\* const otherApps = await Application.findOne({ petId, status: 'Pending' });
\* found: nothing more to await, res.json(success)
WithdrawFindOther(r) ==
  /\ reqs[r].op = "withdraw" /\ reqs[r].pc = "findOther"
  /\ reqs' = IF FindPendingForPet(reqs[r].doc.petId)
             THEN Respond(r, 200)
             ELSE [reqs EXCEPT ![r].pc = "updatePet"]
  /\ UNCHANGED <<pets, nextPet, apps, nextApp, budget>>

\* if (!otherApps) await Pet.findByIdAndUpdate(petId, { status: 'Available' })
WithdrawUpdatePet(r) ==
  /\ reqs[r].op = "withdraw" /\ reqs[r].pc = "updatePet"
  /\ pets' = SetPetStatus(reqs[r].doc.petId, "Available")
  /\ reqs' = Respond(r, 200)
  /\ UNCHANGED <<nextPet, apps, nextApp, budget>>

\* an empty database and no request in sight
InitOf(nPets, nApps, nConc, nReq) ==
  /\ pets = [p \in 1..nPets |-> NoPet]
  /\ nextPet = 1
  /\ apps = [a \in 1..nApps |-> NoApp]
  /\ nextApp = 1
  /\ reqs = [r \in 1..nConc |-> IdleReq]
  /\ budget = nReq

\* the workflow configuration: requests of NumUsers users, decisions with or
\* without a note
Init == InitOf(NumPets, MaxApps, MaxConc, MaxReq)

Next ==
  \/ CreatePet
  \/ \E r \in 1..MaxConc, u \in 1..NumUsers, p \in 1..NumPets : SubmitFindPet(r, u, p)
  \/ \E r \in 1..MaxConc : SubmitFindExisting(r)
  \/ \E r \in 1..MaxConc : SubmitCreate(r)
  \/ \E r \in 1..MaxConc : SubmitUpdatePet(r)
  \/ \E r \in 1..MaxConc, id \in 1..MaxApps, n \in AdminNotes : ApproveFind(r, id, n)
  \/ \E r \in 1..MaxConc : ApproveSave(r)
  \/ \E r \in 1..MaxConc : ApproveUpdatePet(r)
  \/ \E r \in 1..MaxConc, id \in 1..MaxApps, n \in AdminNotes : RejectFind(r, id, n)
  \/ \E r \in 1..MaxConc : RejectSave(r)
  \/ \E r \in 1..MaxConc : RejectUpdatePet(r)
  \/ \E r \in 1..MaxConc, u \in 1..NumUsers, id \in 1..MaxApps : WithdrawFind(r, u, id)
  \/ \E r \in 1..MaxConc : WithdrawDelete(r)
  \/ \E r \in 1..MaxConc : WithdrawFindOther(r)
  \/ \E r \in 1..MaxConc : WithdrawUpdatePet(r)

Spec == Init /\ [][Next]_vars

\* the core configuration: requests of CoreUsers users, every decision with a note
InitCore == InitOf(CorePets, CoreApps, CoreConc, CoreReq)

NextCore ==
  \/ CreatePet
  \/ \E r \in 1..CoreConc, u \in 1..CoreUsers, p \in 1..CorePets : SubmitFindPet(r, u, p)
  \/ \E r \in 1..CoreConc : SubmitFindExisting(r)
  \/ \E r \in 1..CoreConc : SubmitCreate(r)
  \/ \E r \in 1..CoreConc : SubmitUpdatePet(r)
  \/ \E r \in 1..CoreConc, id \in 1..CoreApps, n \in CoreNotes : ApproveFind(r, id, n)
  \/ \E r \in 1..CoreConc : ApproveSave(r)
  \/ \E r \in 1..CoreConc : ApproveUpdatePet(r)
  \/ \E r \in 1..CoreConc, id \in 1..CoreApps, n \in CoreNotes : RejectFind(r, id, n)
  \/ \E r \in 1..CoreConc : RejectSave(r)
  \/ \E r \in 1..CoreConc : RejectUpdatePet(r)
  \/ \E r \in 1..CoreConc, u \in 1..CoreUsers, id \in 1..CoreApps : WithdrawFind(r, u, id)
  \/ \E r \in 1..CoreConc : WithdrawDelete(r)
  \/ \E r \in 1..CoreConc : WithdrawFindOther(r)
  \/ \E r \in 1..CoreConc : WithdrawUpdatePet(r)

SpecCore == InitCore /\ [][NextCore]_vars

\* the ownership configuration: requests of OwnerUsers users, every decision
\* with a note
InitOwner == InitOf(OwnerPets, OwnerApps, OwnerConc, OwnerReq)

NextOwner ==
  \/ CreatePet
  \/ \E r \in 1..OwnerConc, u \in 1..OwnerUsers, p \in 1..OwnerPets : SubmitFindPet(r, u, p)
  \/ \E r \in 1..OwnerConc : SubmitFindExisting(r)
  \/ \E r \in 1..OwnerConc : SubmitCreate(r)
  \/ \E r \in 1..OwnerConc : SubmitUpdatePet(r)
  \/ \E r \in 1..OwnerConc, id \in 1..OwnerApps, n \in CoreNotes : ApproveFind(r, id, n)
  \/ \E r \in 1..OwnerConc : ApproveSave(r)
  \/ \E r \in 1..OwnerConc : ApproveUpdatePet(r)
  \/ \E r \in 1..OwnerConc, id \in 1..OwnerApps, n \in CoreNotes : RejectFind(r, id, n)
  \/ \E r \in 1..OwnerConc : RejectSave(r)
  \/ \E r \in 1..OwnerConc : RejectUpdatePet(r)
  \/ \E r \in 1..OwnerConc, u \in 1..OwnerUsers, id \in 1..OwnerApps : WithdrawFind(r, u, id)
  \/ \E r \in 1..OwnerConc : WithdrawDelete(r)
  \/ \E r \in 1..OwnerConc : WithdrawFindOther(r)
  \/ \E r \in 1..OwnerConc : WithdrawUpdatePet(r)

SpecOwner == InitOwner /\ [][NextOwner]_vars

\* the core configuration with a store whose pet writes can fail
NextFault ==
  \/ NextCore
  \/ \E r \in 1..CoreConc : SubmitUpdatePetFails(r)
  \/ \E r \in 1..CoreConc : ApproveUpdatePetFails(r)
  \/ \E r \in 1..CoreConc : RejectUpdatePetFails(r)

SpecFault == InitCore /\ [][NextFault]_vars

\* the core configuration with the admin's generic pet update and pet deletion
NextAdmin ==
  \/ NextCore
  \/ \E r \in 1..CoreConc, p \in 1..CorePets, b \in PetBodies : UpdatePetFind(r, p, b)
  \/ \E r \in 1..CoreConc : UpdatePetWrite(r)
  \/ \E p \in 1..CorePets : DeletePet(p)

SpecAdmin == InitCore /\ [][NextAdmin]_vars

\* the authorization configuration: decisions requested by callers of every
\* role, every decision with a note
InitAuth == InitOf(AuthPets, AuthApps, AuthConc, AuthReq)

NextAuth ==
  \/ \E b \in PetBodies : CreatePetWith(b)
  \/ \E r \in 1..AuthConc, u \in 1..AuthUsers, p \in 1..AuthPets : SubmitFindPet(r, u, p)
  \/ \E r \in 1..AuthConc : SubmitFindExisting(r)
  \/ \E r \in 1..AuthConc : SubmitCreate(r)
  \/ \E r \in 1..AuthConc : SubmitUpdatePet(r)
  \/ \E r \in 1..AuthConc, role \in Roles, id \in 1..AuthApps, n \in CoreNotes : ApproveRequest(r, role, id, n)
  \/ \E r \in 1..AuthConc : ApproveSave(r)
  \/ \E r \in 1..AuthConc : ApproveUpdatePet(r)
  \/ \E r \in 1..AuthConc, role \in Roles, id \in 1..AuthApps, n \in CoreNotes : RejectRequest(r, role, id, n)
  \/ \E r \in 1..AuthConc : RejectSave(r)
  \/ \E r \in 1..AuthConc : RejectUpdatePet(r)
  \/ \E r \in 1..AuthConc, u \in 1..AuthUsers, id \in 1..AuthApps : WithdrawFind(r, u, id)
  \/ \E r \in 1..AuthConc : WithdrawDelete(r)
  \/ \E r \in 1..AuthConc : WithdrawFindOther(r)
  \/ \E r \in 1..AuthConc : WithdrawUpdatePet(r)

SpecAuth == InitAuth /\ [][NextAuth]_vars

\* the workflow configuration with applicants only: no decision is requested
NextApplicants ==
  \/ CreatePet
  \/ \E r \in 1..MaxConc, u \in 1..NumUsers, p \in 1..NumPets : SubmitFindPet(r, u, p)
  \/ \E r \in 1..MaxConc : SubmitFindExisting(r)
  \/ \E r \in 1..MaxConc : SubmitCreate(r)
  \/ \E r \in 1..MaxConc : SubmitUpdatePet(r)
  \/ \E r \in 1..MaxConc, u \in 1..NumUsers, id \in 1..MaxApps : WithdrawFind(r, u, id)
  \/ \E r \in 1..MaxConc : WithdrawDelete(r)
  \/ \E r \in 1..MaxConc : WithdrawFindOther(r)
  \/ \E r \in 1..MaxConc : WithdrawUpdatePet(r)

SpecApplicants == Init /\ [][NextApplicants]_vars

\* the authorization configuration with submits that carry a userId in their
\* body, every caller of a decision being an admin
NextIdentity ==
  \/ CreatePet
  \/ \E r \in 1..AuthConc, u \in 1..AuthUsers, p \in 1..AuthPets : SubmitFindPet(r, u, p)
  \/ \E r \in 1..AuthConc, u \in 1..AuthUsers, bu \in 1..AuthUsers, p \in 1..AuthPets :
       SubmitWithBody(r, u, bu, p)
  \/ \E r \in 1..AuthConc : SubmitFindExisting(r)
  \/ \E r \in 1..AuthConc : SubmitCreate(r)
  \/ \E r \in 1..AuthConc : SubmitUpdatePet(r)
  \/ \E r \in 1..AuthConc, id \in 1..AuthApps, n \in CoreNotes : ApproveFind(r, id, n)
  \/ \E r \in 1..AuthConc : ApproveSave(r)
  \/ \E r \in 1..AuthConc : ApproveUpdatePet(r)
  \/ \E r \in 1..AuthConc, id \in 1..AuthApps, n \in CoreNotes : RejectFind(r, id, n)
  \/ \E r \in 1..AuthConc : RejectSave(r)
  \/ \E r \in 1..AuthConc : RejectUpdatePet(r)
  \/ \E r \in 1..AuthConc, u \in 1..AuthUsers, id \in 1..AuthApps : WithdrawFind(r, u, id)
  \/ \E r \in 1..AuthConc : WithdrawDelete(r)
  \/ \E r \in 1..AuthConc : WithdrawFindOther(r)
  \/ \E r \in 1..AuthConc : WithdrawUpdatePet(r)

SpecIdentity == InitAuth /\ [][NextIdentity]_vars

\* ------------------------------------------------------------------ claims
\* the names the specification gives the pet states, and the values the
\* handlers and the pet schema write for them
IsAvailable(s) == s \in {"available", "Available"}
IsPending(s) == s \in {"pending", "Under Review"}
IsAdopted(s) == s \in {"adopted", "Adopted"}

ApprovedFor(p) == {a \in AppIds : apps[a].exists /\ apps[a].petId = p /\ apps[a].status = "Approved"}
Done(r) == reqs[r].pc = "done"

\* C1: in every reachable state each pet has at most one Application with
\* status Approved that targets it
C1_AtMostOneApproved == \A p \in PetIds : Cardinality(ApprovedFor(p)) <= 1

\* C2: two approve requests running side by side for two distinct Pending
\* applications on the same pet: exactly one answers success and the other
\* Conflict (409); afterwards the pet is adopted by the user of the successful
\* application and only that application is Approved
C2_ConcurrentApprove ==
  \A r1, r2 \in Reqs :
    ( /\ r1 # r2 /\ Done(r1) /\ Done(r2)
      /\ reqs[r1].op = "approve" /\ reqs[r2].op = "approve"
      /\ reqs[r1].doc.exists /\ reqs[r2].doc.exists
      /\ reqs[r1].doc.status = "Pending" /\ reqs[r2].doc.status = "Pending"
      /\ reqs[r1].appId # reqs[r2].appId
      /\ reqs[r1].doc.petId = reqs[r2].doc.petId )
    => \E w \in {r1, r2} : \E l \in {r1, r2} \ {w} :
         /\ reqs[w].res = 200
         /\ reqs[l].res = 409
         /\ IsAdopted(pets[reqs[w].doc.petId].status)
         /\ pets[reqs[w].doc.petId].adoptedBy = reqs[w].doc.userId
         /\ ApprovedFor(reqs[w].doc.petId) = {reqs[w].appId}

\* the pet that handler r's application targets is adopted through an
\* application other than r's
AdoptedThroughOther(r) ==
  /\ reqs[r].doc.petId \in PetIds
  /\ IsAdopted(pets[reqs[r].doc.petId].status)
  /\ ApprovedFor(reqs[r].doc.petId) \ {reqs[r].appId} # {}

\* C3: an approve that reaches its pet write while the pet is already adopted
\* through a different application answers Conflict (409), does not leave its
\* application Approved and leaves the pet as it was
C3_ApproveAdoptedConflict ==
  [][\A r \in Reqs :
       (ApproveUpdatePet(r) /\ AdoptedThroughOther(r) /\ reqs[r].doc.status = "Pending")
       => /\ reqs'[r].res = 409
          /\ apps'[reqs[r].appId].status # "Approved"
          /\ pets' = pets]_vars

\* C4: in every reachable state at most one Application is stored per
\* (userId, petId) pair, whatever its status
C4_UniqueUserPet ==
  \A a, b \in AppIds :
    (apps[a].exists /\ apps[b].exists /\ apps[a].userId = apps[b].userId
       /\ apps[a].petId = apps[b].petId) => a = b

\* two submits of one (userId, petId) pair both passed the 'already applied'
\* read; one inserted and the insert of the other was refused
C4_Witness ==
  \E r1, r2 \in Reqs :
    /\ r1 # r2
    /\ reqs[r1].op = "submit" /\ reqs[r2].op = "submit"
    /\ reqs[r1].user = reqs[r2].user /\ reqs[r1].petId = reqs[r2].petId
    /\ reqs[r1].doc.exists /\ apps[reqs[r1].appId].exists
    /\ Done(r2) /\ reqs[r2].res = 500

\* C5: of two submits of one (userId, petId) pair, one of which succeeds, the
\* other answers the duplicate outcome (400 or 409), never an internal error
C5_DuplicateOutcome ==
  \A r1, r2 \in Reqs :
    ( /\ r1 # r2 /\ Done(r1) /\ Done(r2)
      /\ reqs[r1].op = "submit" /\ reqs[r2].op = "submit"
      /\ reqs[r1].user = reqs[r2].user /\ reqs[r1].petId = reqs[r2].petId
      /\ reqs[r1].res = 201 )
    => reqs[r2].res \in {400, 409}

\* C6: for every stored Application, decidedDate is set if and only if its
\* status is not Pending
C6_DecidedDateIffDecided ==
  \A a \in AppIds :
    apps[a].exists => (apps[a].decidedDate # "null" <=> apps[a].status # "Pending")

\* an approve has saved its decision on an application it read as Pending
C6_Witness ==
  \E r \in Reqs :
    /\ reqs[r].op = "approve" /\ reqs[r].pc = "updatePet"
    /\ reqs[r].doc.status = "Pending"
    /\ apps[reqs[r].appId].exists
    /\ apps[reqs[r].appId].status = "Approved"
    /\ apps[reqs[r].appId].decidedDate = "date"

\* C7: for every pet, status is adopted if and only if adoptedBy and
\* adoptionDate are both set
C7_AdoptedIffAdopter ==
  \A p \in PetIds :
    pets[p].exists =>
      (IsAdopted(pets[p].status) <=> (pets[p].adoptedBy # 0 /\ pets[p].adoptionDate # "null"))

\* C8: a successful approve of an application read as Pending, on a pet that
\* is not adopted, leaves the application Approved with decidedDate set and
\* the pet adopted by the application's user
C8_ApproveEffect ==
  [][\A r \in Reqs :
       ( /\ ApproveUpdatePet(r)
         /\ reqs[r].doc.status = "Pending"
         /\ apps[reqs[r].appId].exists
         /\ pets[reqs[r].doc.petId].exists
         /\ ~IsAdopted(pets[reqs[r].doc.petId].status)
         /\ reqs'[r].res = 200 )
       => /\ apps'[reqs[r].appId].status = "Approved"
          /\ apps'[reqs[r].appId].decidedDate # "null"
          /\ IsAdopted(pets'[reqs[r].doc.petId].status)
          /\ pets'[reqs[r].doc.petId].adoptedBy = reqs[r].doc.userId]_vars

\* handler r is the only one since it started: no other request ran beside it
RunsAlone(r) == r \in InFlight /\ \A q \in Reqs \ {r} : reqs[q].pc = "idle"

\* C9: once a pet is adopted, no step of a submit, approve, reject or
\* withdraw request that runs alone (so that it started after the adoption)
\* changes the pet's status or its adopter
C9_AdoptedTerminal ==
  [][(\E r \in Reqs : RunsAlone(r))
     => \A p \in PetIds :
          IsAdopted(pets[p].status)
          => (pets'[p].status = pets[p].status /\ pets'[p].adoptedBy = pets[p].adoptedBy)]_vars

\* C10: the pet write of a submit sets the status to pending when it is
\* available and leaves any other status unchanged
C10_SubmitPetStatus ==
  [][\A r \in Reqs :
       (SubmitUpdatePet(r) /\ pets[reqs[r].petId].exists)
       => IF IsAvailable(pets[reqs[r].petId].status)
          THEN IsPending(pets'[reqs[r].petId].status)
          ELSE pets'[reqs[r].petId].status = pets[reqs[r].petId].status]_vars

\* C11: once an application is Approved or Rejected, no step of an approve or
\* reject request that runs alone (so that it started after the decision)
\* changes its status or its decidedDate
C11_DecisionTerminal ==
  [][(\E r \in Reqs : RunsAlone(r) /\ reqs[r].op \in {"approve", "reject"})
     => \A a \in AppIds :
          (apps[a].exists /\ apps[a].status \in {"Approved", "Rejected"})
          => (apps'[a].status = apps[a].status /\ apps'[a].decidedDate = apps[a].decidedDate)]_vars

\* C12: a reject that answers success leaves its application Rejected with
\* decidedDate set and the targeted pet with status available, whether or not
\* other Pending applications target the pet
C12_RejectEffect ==
  [][\A r \in Reqs :
       (RejectUpdatePet(r) /\ reqs'[r].res = 200 /\ pets[reqs[r].doc.petId].exists)
       => /\ apps'[reqs[r].appId].status = "Rejected"
          /\ apps'[reqs[r].appId].decidedDate # "null"
          /\ pets'[reqs[r].doc.petId].status = "available"]_vars

\* handler r answers its withdraw with success in this step
WithdrawSucceeds(r) ==
  \/ WithdrawFindOther(r) /\ reqs'[r].res = 200
  \/ WithdrawUpdatePet(r)

\* C13: when a withdraw answers success its application is deleted; if another
\* Pending application targets the pet the answer leaves the pet's status as it
\* was, and if none does the pet's status is available
C13_WithdrawEffect ==
  [][\A r \in Reqs :
       (WithdrawSucceeds(r) /\ pets[reqs[r].doc.petId].exists)
       => /\ ~apps'[reqs[r].appId].exists
          /\ IF FindPendingForPet(reqs[r].doc.petId)
             THEN pets'[reqs[r].doc.petId].status = pets[reqs[r].doc.petId].status
             ELSE pets'[reqs[r].doc.petId].status = "available"]_vars

\* C14: a withdraw whose caller is not the owning user of the application
\* answers Forbidden (403) at once and changes nothing: every application
\* and every pet is as it was
C14_WithdrawForbidden ==
  [][\A r \in Reqs, id \in AppIds :
       ( /\ WithdrawFind(r, reqs'[r].user, id)
         /\ apps[id].exists
         /\ apps[id].userId # reqs'[r].user )
       => /\ reqs'[r].pc = "done"
          /\ reqs'[r].res = 403
          /\ apps' = apps
          /\ pets' = pets]_vars

\* a user other than the owner asked to withdraw a stored application and
\* got Forbidden
C14_Witness ==
  \E r \in Reqs :
    /\ reqs[r].op = "withdraw" /\ Done(r) /\ reqs[r].res = 403
    /\ reqs[r].doc.exists /\ reqs[r].doc.userId # reqs[r].user
    /\ apps[reqs[r].appId] = reqs[r].doc

\* C15: two submits of different users for the same pet, running side by side
\* with no other request and no other application on the pet, both answer
\* success; two Pending applications target the pet and, both requests being
\* complete, the pet's status is pending
C15_TwoUsersSubmit ==
  \A r1, r2 \in Reqs :
    ( /\ r1 # r2 /\ Done(r1) /\ Done(r2)
      /\ reqs[r1].op = "submit" /\ reqs[r2].op = "submit"
      /\ reqs[r1].user # reqs[r2].user /\ reqs[r1].petId = reqs[r2].petId
      /\ reqs[r1].res # 404 /\ reqs[r2].res # 404
      /\ \A q \in Reqs \ {r1, r2} : reqs[q].pc = "idle"
      /\ \A a \in AppIds : (apps[a].exists /\ apps[a].petId = reqs[r1].petId)
                             => a \in {reqs[r1].appId, reqs[r2].appId} )
    => /\ reqs[r1].res = 201 /\ reqs[r2].res = 201
       /\ \A r \in {r1, r2} : apps[reqs[r].appId].exists /\ apps[reqs[r].appId].status = "Pending"
       /\ pets[reqs[r1].petId].status = "pending"

\* handler r receives in this step an approve, reject or withdraw request for
\* application id
DecisionOrWithdrawStarts(r, id) ==
  \/ ApproveFind(r, id, reqs'[r].notes)
  \/ RejectFind(r, id, reqs'[r].notes)
  \/ WithdrawFind(r, reqs'[r].user, id)

\* C16: an approve, reject or withdraw whose application id matches no stored
\* application answers not found (404), an outcome other than the internal
\* error (500), and changes no application and no pet
C16_UnknownApplication ==
  [][\A r \in Reqs, id \in AppIds :
       (DecisionOrWithdrawStarts(r, id) /\ ~apps[id].exists)
       => /\ reqs'[r].pc = "done"
          /\ reqs'[r].res = 404
          /\ apps' = apps
          /\ pets' = pets]_vars

PetWriteFails(r) ==
  \/ SubmitUpdatePetFails(r)
  \/ ApproveUpdatePetFails(r)
  \/ RejectUpdatePetFails(r)

\* C18: when the pet write of a submit or of a decision fails after the
\* application write has committed, the request logs an InternalInconsistency
\* event and answers a failure, never success
C18_InconsistencyLogged ==
  [][\A r \in Reqs :
       PetWriteFails(r)
       => /\ reqs'[r].res \notin {200, 201}
          /\ "InternalInconsistency" \in reqs'[r].logged]_vars

\* C19: the generic pet update never changes a pet's status, adoptedBy or
\* adoptionDate; a body that carries one of these fields is refused
C19_UpdateKeepsWorkflowFields ==
  [][\A r \in Reqs :
       (UpdatePetWrite(r) /\ pets[reqs[r].petId].exists)
       => /\ pets'[reqs[r].petId].status = pets[reqs[r].petId].status
          /\ pets'[reqs[r].petId].adoptedBy = pets[reqs[r].petId].adoptedBy
          /\ pets'[reqs[r].petId].adoptionDate = pets[reqs[r].petId].adoptionDate
          /\ (reqs[r].body.fields # {} => reqs'[r].res \notin {200, 201})]_vars

\* C20: in every reachable state the status of every stored pet is one of
\* available, pending, adopted, not_available, fostered
C20_PetStatusInEnum ==
  \A p \in PetIds : pets[p].exists => pets[p].status \in PetStatusEnum

\* the applications of user u for pet p that are stored as Rejected
RejectedFor(u, p) ==
  {a \in AppIds : apps[a].exists /\ apps[a].userId = u /\ apps[a].petId = p /\ apps[a].status = "Rejected"}

C22_DecisionNeedsAdmin ==
  [][\A r \in Reqs, id \in AppIds, role \in Roles \ {"admin"} :
       ( \/ ApproveRequest(r, role, id, reqs'[r].notes)
         \/ RejectRequest(r, role, id, reqs'[r].notes) )
       => /\ reqs'[r].pc = "done"
          /\ reqs'[r].res = 403
          /\ apps' = apps
          /\ pets' = pets]_vars

\* a decision on a stored Pending application was refused with 403 and the
\* application is still Pending
C22_Witness ==
  \E r \in Reqs :
    /\ reqs[r].op \in {"approve", "reject"} /\ Done(r) /\ reqs[r].res = 403
    /\ apps[reqs[r].appId].exists
    /\ apps[reqs[r].appId].status = "Pending"
    /\ apps[reqs[r].appId].decidedDate = "null"

\* the position of a handler in its sequence of store operations
Rank(pc) ==
  CASE pc = "idle" -> 0
    [] pc \in {"findExisting", "save", "delete", "update"} -> 1
    [] pc \in {"create", "findOther"} -> 2
    [] pc = "updatePet" -> 3
    [] pc = "done" -> 4

\* the next store operation of handler r
HandlerStep(r) ==
  \/ SubmitFindExisting(r) \/ SubmitCreate(r) \/ SubmitUpdatePet(r)
  \/ ApproveSave(r) \/ ApproveUpdatePet(r)
  \/ RejectSave(r) \/ RejectUpdatePet(r)
  \/ WithdrawDelete(r) \/ WithdrawFindOther(r) \/ WithdrawUpdatePet(r)

\* a step leaves handler r alone, or moves it forward in its sequence without
\* an answer, or ends it with its one answer; a slot that holds no running
\* handler is cleared or takes a new request
Progress(r) ==
  \/ reqs'[r] = reqs[r]
  \/ /\ r \in InFlight
     /\ reqs[r].res = 0
     /\ reqs'[r].op = reqs[r].op
     /\ Rank(reqs'[r].pc) > Rank(reqs[r].pc)
     /\ (reqs'[r].res # 0 <=> reqs'[r].pc = "done")
  \/ /\ r \notin InFlight
     /\ \/ reqs'[r] = IdleReq
        \/ /\ reqs'[r].op # "none" /\ reqs'[r].pc # "idle"
           /\ (reqs'[r].res # 0 <=> reqs'[r].pc = "done")

\* C23: every submit, approve, reject and withdraw handler can always take
\* its next store operation, whatever the other handlers do (it waits for
\* none), never repeats one, and after at most four of them ends with
\* exactly one answer
C23_FailFast ==
  /\ [](\A r \in InFlight : ENABLED HandlerStep(r))
  /\ [][\A r \in Reqs : Progress(r)]_vars

\* a submit has gone through its four store operations and answered 201
\* while another handler is still running
C23_Witness ==
  \E r, q \in Reqs :
    /\ reqs[r].op = "submit" /\ Done(r) /\ reqs[r].res = 201
    /\ q \in InFlight

\* C24: an application that is stored before and after a step has the same
\* userId and petId after it as before: both keep the values submit gave them
\* until the application is deleted
C24_ApplicantImmutable ==
  [][\A a \in AppIds :
       (apps[a].exists /\ apps'[a].exists)
       => (apps'[a].userId = apps[a].userId /\ apps'[a].petId = apps[a].petId)]_vars

\* an application has been decided and still names its applicant and its pet
C24_Witness ==
  \E a \in AppIds :
    /\ apps[a].exists /\ apps[a].status \in {"Approved", "Rejected"}
    /\ apps[a].decidedDate = "date"
    /\ apps[a].userId # 0 /\ apps[a].petId \in PetIds

\* C25: a pet created by POST /api/pets starts with status available, no
\* adopter and no adoption date, whatever status, adoptedBy or adoptionDate
\* the request body carries
C25_CreatedAvailable ==
  [][\A b \in PetBodies :
       CreatePetWith(b)
       => /\ pets'[nextPet].exists
          /\ pets'[nextPet].status = "available"
          /\ pets'[nextPet].adoptedBy = 0
          /\ pets'[nextPet].adoptionDate = "null"]_vars

\* a pet has just been created and no request has touched it yet
C25_Witness ==
  /\ \E p \in PetIds : pets[p].exists /\ pets[p].status = "available" /\ pets[p].adoptedBy = 0
  /\ \A a \in AppIds : ~apps[a].exists
  /\ \A r \in Reqs : reqs[r].pc = "idle"

\* no handler is running: every request received so far has been answered
Quiescent == InFlight = {}

\* C26: whenever no request is in flight, every Approved application targets
\* a pet whose status is adopted
C26_ApprovedImpliesAdopted ==
  Quiescent
  => \A a \in AppIds :
       (apps[a].exists /\ apps[a].status = "Approved" /\ pets[apps[a].petId].exists)
       => IsAdopted(pets[apps[a].petId].status)

\* C27: whenever no request is in flight, every pet whose status is adopted
\* has exactly one Approved application targeting it
C27_AdoptedHasOneApproved ==
  Quiescent
  => \A p \in PetIds :
       (pets[p].exists /\ IsAdopted(pets[p].status)) => Cardinality(ApprovedFor(p)) = 1

\* C28: in runs of submit and withdraw requests only, whenever every request
\* has completed a pet whose status is available has no Pending application
\* targeting it
C28_AvailableHasNoPending ==
  Quiescent
  => \A p \in PetIds :
       (pets[p].exists /\ IsAvailable(pets[p].status)) => ~FindPendingForPet(p)

\* C29: whenever every request has completed, a pet whose status is pending
\* has at least one Pending application targeting it
C29_PendingHasPending ==
  Quiescent
  => \A p \in PetIds :
       (pets[p].exists /\ IsPending(pets[p].status)) => FindPendingForPet(p)

\* C30: an approve and a reject of the same application, both read as
\* Pending, running side by side: at most one answers success, and once both
\* have completed the pet is adopted if the application is Approved and
\* available if it is Rejected
C30_ApproveRejectRace ==
  \A r1, r2 \in Reqs :
    ( /\ Done(r1) /\ Done(r2)
      /\ reqs[r1].op = "approve" /\ reqs[r2].op = "reject"
      /\ reqs[r1].appId = reqs[r2].appId
      /\ reqs[r1].doc.exists /\ reqs[r2].doc.exists
      /\ reqs[r1].doc.status = "Pending" /\ reqs[r2].doc.status = "Pending"
      /\ apps[reqs[r1].appId].exists /\ pets[reqs[r1].doc.petId].exists )
    => /\ ~(reqs[r1].res = 200 /\ reqs[r2].res = 200)
       /\ apps[reqs[r1].appId].status = "Approved" => IsAdopted(pets[reqs[r1].doc.petId].status)
       /\ apps[reqs[r1].appId].status = "Rejected" => IsAvailable(pets[reqs[r1].doc.petId].status)

\* C31: in every reachable state the petId of every stored application
\* refers to a stored pet
C31_ApplicationPetStored ==
  \A a \in AppIds :
    apps[a].exists => (apps[a].petId \in PetIds /\ pets[apps[a].petId].exists)

\* GET /api/pets with no query: Pet.find({ status: 'available' }), first page
Listed(p) == pets[p].exists /\ pets[p].status = "available"

\* C32: the public listing returns a pet if and only if its status is
\* available, as pet creation or the workflow (reject, withdraw) wrote it; a
\* pet that is pending or adopted is not listed
C32_ListingShowsAvailable ==
  \A p \in PetIds : pets[p].exists => (Listed(p) <=> IsAvailable(pets[p].status))

====
